---- MODULE Spec2Model ----
(***************************************************************************)
(* The identity agent (linkerd2-proxy-identity, src/unnamed/part_000):     *)
(* startup (trust anchors, end-entity directory, key, CSR, token, dial)    *)
(* followed by the certificate renewal loop.                               *)
(*                                                                         *)
(* Durations are in milliseconds.  The largest product beforeExpiry can    *)
(* form in the source, (MaxInt64 / 1e9) * 8e8 ns, is below 2^63, so the    *)
(* int64 width of time.Duration never wraps there and plain integers model *)
(* it.  Times of certificates (NotBefore, NotAfter) are kept as offsets    *)
(* from the agent's current instant, which is what time.Until and          *)
(* time.Now().Before/After consume; the passing of time shifts them.       *)
(***************************************************************************)
EXTENDS Integers, FiniteSets, Sequences, TLC

\* ---------------------------------------------------------------- bounds
\* number of distinct certificate byte strings the service may return
MaxSerial == 2
\* number of distinct token values the token file may hold
MaxToken == 2
MaxExpiry == 3000
MaxDrift == 30

\* ------------------------------------------------------ program constants
MIN_REFRESH_TIME == 1000
MAX_REFRESH_TIME == 86400000
Second == 1000
RefreshFraction == 800
Perm0700 == 448
Perm0400 == 256
Perm0600 == 384

\* ---------------------------------------------------------- input domains
\* permission bits the end-entity directory may have (0700, 0755)
DirPerms == {Perm0700, 493}
FileNames == {"key", "csr", "crt.pem"}
\* the offset that stands for every instant in the past
Floor == 0 - MIN_REFRESH_TIME
NotBeforeOffsets == {Floor, MIN_REFRESH_TIME}
\* expired; valid for 0.5s, 1.5s, 100s; valid for longer than the 30h beyond
\* which the refresh interval is cut to MAX_REFRESH_TIME
NotAfterOffsets == {Floor, 500, 1500, 100000, 148900000}
WriteOutcomes == {"ok", "openfail", "partial"}

\* ------------------------------------------------------------------ values
NoFile == [exists |-> FALSE, kind |-> "none", ser |-> 0, mode |-> 0]
File(kind, ser, mode) == [exists |-> TRUE, kind |-> kind, ser |-> ser, mode |-> mode]

\* var crt *x509.Certificate: nil, or the parsed leaf
Nil == [ser |-> 0, id |-> "", chain |-> FALSE, nb |-> 0, na |-> 0]
Cert(ser, id, chain, nb, na) == [ser |-> ser, id |-> id, chain |-> chain, nb |-> nb, na |-> na]

VARIABLES
    flags,        \* the parsed command line and the files it names
    dirKind,      \* what -dir names: "missing", "file" or "dir"
    dirPerm,      \* its permission bits
    files,        \* key, csr and crt.pem under -dir
    tokenFile,    \* contents of the token file at the latest read of it, 0
                  \* when it could not be read
    pc,           \* position of main
    fatal,        \* why the process ended, "" while it runs
    key,          \* "nil" or "key"
    csrb,         \* "nil" or "csr"
    reqToken,     \* certifyReq.Token
    crt,          \* the certificate main holds
    refreshIn,    \* the interval computed in the last iteration
    timer,        \* what remains of time.NewTimer(refreshIn)
    stop,         \* number of signals buffered in the stop channel (0 or 1)
    \* history
    preExisting,  \* the files present under -dir when the process started
    genFailed,    \* which credential-generation step failed, "none" if none
    csrFromNilKey,\* x509.CreateCertificateRequest was called with a nil key
    lastOutcome,  \* how the Certify attempt of this iteration ended
    sigInFlight,  \* a signal was delivered while a Certify call was in flight
    goodToken,    \* the token of the latest read of the token file that succeeded
    \* the identity service
    srv,          \* the state of the server's main (controller/cmd/identity)
    \* what else runs on the agent's host
    peer,         \* a second agent process started on the same -dir
    sh,           \* the start script of the injected sidecar
    \* the injector
    inj,          \* a call of ShouldInjectWebhook: its arguments and result
    conf          \* a ResourceConfig, the workload given to it and the patch
                  \* and report that GetPatch returns for it

vars == <<flags, dirKind, dirPerm, files, tokenFile, pc, fatal, key, csrb,
          reqToken, crt, refreshIn, timer, stop, preExisting, genFailed,
          csrFromNilKey, lastOutcome, sigInFlight, goodToken, srv, peer, sh, inj,
          conf>>

envVars == <<flags, dirKind, dirPerm, preExisting, srv, peer, sh, inj, conf>>
loopVars == <<reqToken, goodToken, crt, refreshIn, timer, lastOutcome>>
sigVars == <<stop, sigInFlight>>

\* the directory as the process finds it: left is the set of files left there
InitialFiles(left) ==
    [f \in FileNames |-> IF f \in left THEN File("old", 0, Perm0600) ELSE NoFile]

\* no CA constructed yet
NoCA == [built |-> FALSE, lifetime |-> 0, skew |-> 0]

\* lines 40-43: the defaults of -issuance-lifetime and -clock-skew-allowance
DefaultLifetime == 86400000
DefaultSkew == 0

\* lines 28-48: the server's main after flags.ConfigureAndParse and
\* signal.Notify, with command line and files cl
SrvStart(cl) ==
    [pc |-> "trustDomain", ns |-> cl.ns, td |-> cl.td, anchors |-> cl.anchors,
     creds |-> cl.creds, issuerChain |-> cl.issuerChain, issuerName |-> cl.issuerName,
     lifetime |-> cl.lifetime, skew |-> cl.skew,
     ca |-> NoCA, admin |-> FALSE, listening |-> FALSE, serving |-> FALSE,
     everListened |-> FALSE, stop |-> 0, fatal |-> "", issued |-> Nil]

\* the default command line, with files that pass every check
SrvDefault ==
    SrvStart([ns |-> "linkerd", td |-> "cluster.local", anchors |-> "ok",
              creds |-> "ok", issuerChain |-> TRUE,
              issuerName |-> <<"identity", "linkerd", "cluster.local">>,
              lifetime |-> DefaultLifetime, skew |-> DefaultSkew])

\* no second agent process has been started
PeerOff ==
    [pc |-> "off", key |-> "nil", csrb |-> "nil", fatal |-> "", after |-> "off",
     root |-> FALSE]

\* the container was not started through the script
ShOff == [pc |-> "off", disabled |-> FALSE]

\* ShouldInjectWebhook is not being called
NoAnnotations == [k \in {} |-> ""]
InjOff ==
    [pc |-> "off", injectable |-> FALSE, pod |-> NoAnnotations, ns |-> NoAnnotations,
     result |-> FALSE]

\* GetPatch is not being called
NoBytes ==
    [ok |-> FALSE, name |-> "", namespace |-> "", template |-> FALSE,
     annotated |-> FALSE, volumes |-> FALSE, initContainers |-> FALSE,
     prometheus |-> FALSE]
NoPatch ==
    [kind |-> "nil", roots |-> {}, containers |-> {}, env |-> {},
     destinationDNS |-> "", identityDNS |-> "", volumeMounts |-> {},
     volumes |-> {}, initContainers |-> {}, annotations |-> {}, labels |-> {}]
ConfOff ==
    [pc |-> "off", kind |-> "", bytes |-> NoBytes, idctx |-> FALSE, cni |-> FALSE,
     decision |-> FALSE, obj |-> "nil", podSpec |-> "nil", objMeta |-> "nil",
     podLabels |-> {}, controllerDNSNameOverride |-> "",
     identityDNSNameOverride |-> "", kindInjectable |-> "?", err |-> "nil",
     patch |-> NoPatch, UnsupportedResource |-> FALSE, reports |-> 0]

\* the agent's process is the only one of the model
Alone ==
    /\ peer = PeerOff
    /\ sh = ShOff
    /\ inj = InjOff
    /\ conf = ConfOff

\* ------------------------------------------------------------------- Init
AgentInit ==
    /\ flags \in [trustAnchors : {"", "unreadable", "malformed", "ok"},
                  dir : {"", "set"},
                  name : {"", "id"},
                  token : {"", "set"}]
    /\ dirKind \in {"missing", "file", "dir"}
    /\ dirPerm \in DirPerms
    /\ preExisting \in SUBSET FileNames
    /\ files = InitialFiles(preExisting)
    /\ (dirKind # "dir" => preExisting = {})
    /\ tokenFile \in 0..MaxToken
    /\ pc = "loadVerifier"
    /\ fatal = ""
    /\ key = "nil"
    /\ csrb = "nil"
    /\ reqToken = 0
    /\ crt = Nil
    /\ refreshIn = 0
    /\ timer = 0
    /\ stop = 0
    /\ genFailed = "none"
    /\ csrFromNilKey = FALSE
    /\ lastOutcome = "none"
    /\ sigInFlight = FALSE
    /\ goodToken = 0

Init ==
    /\ AgentInit
    /\ srv = SrvDefault
    /\ Alone

\* log.Fatal / log.Fatalf: the process exits
Fatal(why) ==
    /\ pc' = "exited"
    /\ fatal' = why

\* ---------------------------------------------------------------- startup
loadVerifier_NoEmptyCheck(path) ==
    IF path = "unreadable" THEN "read error"
    ELSE IF path = "malformed" THEN "decode error"
    ELSE "ok"

\* lines 118-136
loadVerifier(path) ==
    IF path = "" THEN "No trust anchors specified"
    ELSE IF path = "unreadable" THEN "read error"
    ELSE IF path = "malformed" THEN "decode error"
    ELSE "ok"

LoadVerifier ==
    /\ pc = "loadVerifier"
    /\ IF loadVerifier(flags.trustAnchors) # "ok"
       THEN Fatal("Failed to load trust anchors")
       ELSE pc' = "checkDir" /\ fatal' = fatal
    /\ UNCHANGED <<envVars, files, tokenFile, key, csrb, loopVars, sigVars,
                   genFailed, csrFromNilKey>>

checkNotExists_Inverted(p, fs, statErr) ==
    IF fs[p].exists /\ ~statErr THEN "ok"
    ELSE IF ~fs[p].exists /\ ~statErr THEN "Already exists"
    ELSE "stat error"

\* os.Stat(p): statErr is a failure other than "does not exist"
checkNotExists(p, fs, statErr) ==
    IF fs[p].exists /\ ~statErr THEN "Already exists"
    ELSE IF ~fs[p].exists /\ ~statErr THEN "ok"
    ELSE "stat error"

checkEndEntityDir(dir, kind, perm, fs, statErr) ==
    IF dir = "" THEN "No end entity directory specified"
    ELSE IF kind = "missing" THEN "stat error"
    ELSE IF kind # "dir" THEN "Not a directory"
    ELSE IF perm = Perm0700 THEN "Must have permissions 0700"
    ELSE IF checkNotExists("key", fs, statErr) # "ok"
         THEN checkNotExists("key", fs, statErr)
    ELSE IF checkNotExists("csr", fs, statErr) # "ok"
         THEN checkNotExists("csr", fs, statErr)
    ELSE IF checkNotExists("crt.pem", fs, statErr) # "ok"
         THEN checkNotExists("crt.pem", fs, statErr)
    ELSE "ok"

CheckEndEntityDir ==
    /\ pc = "checkDir"
    /\ \E statErr \in BOOLEAN :
         LET err == checkEndEntityDir(flags.dir, dirKind, dirPerm, files, statErr) IN
         IF err # "ok"
         THEN Fatal(err)
         ELSE pc' = "genKey" /\ fatal' = fatal
    /\ UNCHANGED <<envVars, files, tokenFile, key, csrb, loopVars, sigVars,
                   genFailed, csrFromNilKey>>

\* ioutil.WriteFile(p, data, perm): O_WRONLY|O_CREATE|O_TRUNC, then Write.
\* perm applies only when the file is created.  "openfail": the open failed,
\* the file is as it was; "partial": the open truncated the file and the
\* write failed.
WriteFile(fs, p, kind, ser, perm, outcome) ==
    LET mode == IF fs[p].exists THEN fs[p].mode ELSE perm IN
    IF outcome = "ok" THEN [fs EXCEPT ![p] = File(kind, ser, mode)]
    ELSE IF outcome = "partial" THEN [fs EXCEPT ![p] = File("partial", 0, mode)]
    ELSE fs

\* tls.GenerateKey succeeds (genOK) or fails.  On success the function
\* returns at once; on failure it goes on to encode and write the nil key:
\* tls.EncodePrivateKeyP8(nil) either panics (enc = "panic") or yields bytes
\* that are written, and the result of the write is the error returned.
generateAndStoreKey(fs, genOK, enc, w) ==
    IF genOK
    THEN [key |-> "key", err |-> "ok", fs |-> fs]
    ELSE IF enc = "panic"
    THEN [key |-> "nil", err |-> "panic", fs |-> fs]
    ELSE [key |-> "nil",
          err |-> IF w = "ok" THEN "ok" ELSE "write error",
          fs |-> WriteFile(fs, "key", "nilkey", 0, Perm0400, w)]

GenerateAndStoreKey ==
    /\ pc = "genKey"
    /\ \E genOK \in BOOLEAN, enc \in {"panic", "bytes"}, w \in WriteOutcomes :
         LET r == generateAndStoreKey(files, genOK, enc, w) IN
         /\ key' = r.key
         /\ files' = r.fs
         /\ genFailed' = IF ~genOK THEN "keygen" ELSE genFailed
         /\ IF r.err # "ok"
            THEN Fatal(r.err)
            ELSE pc' = "genCSR" /\ fatal' = fatal
    /\ UNCHANGED <<envVars, tokenFile, csrb, loopVars, sigVars, csrFromNilKey>>

\* createOK: x509.CreateCertificateRequest returns no error.  It signs with
\* the key it is given (key.Public(), key.Sign()), so from a nil key it yields
\* no request: it fails, by an error or by a panic that ends the process.
generateAndStoreCSR(fs, id, k, createOK, w) ==
    IF id = ""
    THEN [csrb |-> "nil", err |-> "A non-empty identity is required", fs |-> fs]
    ELSE IF k = "nil" \/ ~createOK
    THEN [csrb |-> "nil", err |-> "Failed to create CSR", fs |-> fs]
    ELSE IF w # "ok"
    THEN [csrb |-> "nil", err |-> "Failed to write CSR",
          fs |-> WriteFile(fs, "csr", "csr", 0, Perm0400, w)]
    ELSE [csrb |-> "csr", err |-> "ok",
          fs |-> WriteFile(fs, "csr", "csr", 0, Perm0400, w)]

GenerateAndStoreCSR ==
    /\ pc = "genCSR"
    /\ \E createOK \in BOOLEAN, w \in WriteOutcomes :
         LET r == generateAndStoreCSR(files, flags.name, key, createOK, w) IN
         /\ csrb' = r.csrb
         /\ files' = r.fs
         /\ csrFromNilKey' = (csrFromNilKey \/ (flags.name # "" /\ key = "nil"))
         /\ genFailed' = IF r.err = "Failed to create CSR" THEN "csrcreate"
                         ELSE IF r.err = "Failed to write CSR" THEN "csrwrite"
                         ELSE genFailed
         /\ IF r.err # "ok"
            THEN Fatal(r.err)
            ELSE pc' = "readToken" /\ fatal' = fatal
    /\ UNCHANGED <<envVars, tokenFile, key, loopVars, sigVars>>

ReadToken ==
    /\ pc = "readToken"
    /\ IF flags.token = ""
       THEN Fatal("-token must be specified") /\ UNCHANGED <<reqToken, goodToken>>
       ELSE IF tokenFile = 0
       THEN Fatal("Failed to read token") /\ UNCHANGED <<reqToken, goodToken>>
       ELSE /\ pc' = "dial" /\ fatal' = fatal
            /\ reqToken' = tokenFile
            /\ goodToken' = tokenFile
    /\ UNCHANGED <<envVars, files, tokenFile, key, csrb, crt, refreshIn, timer,
                   lastOutcome, sigVars, genFailed, csrFromNilKey>>

\* grpc.Dial, pb.NewIdentityClient, signal.Notify(stop, ...)
Dial ==
    /\ pc = "dial"
    /\ \E dialOK \in BOOLEAN :
         IF dialOK
         THEN pc' = "loop" /\ fatal' = fatal
         ELSE Fatal("dial error")
    /\ UNCHANGED <<envVars, files, tokenFile, key, csrb, loopVars, sigVars,
                   genFailed, csrFromNilKey>>

\* ----------------------------------------------------------- renewal loop
reloadToken_Shadowed(t, prev) == prev

\* lines 83-88: certifyReq.Token after the token file was read, t being what
\* the read found (0: the read failed) and prev the token of the request
reloadToken(t, prev) == IF t # 0 THEN t ELSE prev

\* Top of the for body: reload the token, then send the Certify request.
\* The token file is rotated, removed or restored from outside between the
\* reads: t is what this read finds.
LoopTop ==
    /\ pc = "loop"
    /\ \E t \in 0..MaxToken :
         /\ tokenFile' = t
         /\ reqToken' = reloadToken(t, reqToken)
         /\ goodToken' = IF t # 0 THEN t ELSE goodToken
    /\ pc' = "certify"
    /\ UNCHANGED <<envVars, files, fatal, key, csrb, crt, refreshIn,
                   timer, lastOutcome, sigVars, genFailed, csrFromNilKey>>

\* The CertifyResponse messages the service may send.  A leaf is a byte
\* string that is empty, does not parse, or parses to a certificate; ser
\* tells the byte strings of certificates apart.
EmptyRsp == [form |-> "empty", inter |-> "ok", leaf |-> Nil]
GarbageRsp == [form |-> "garbage", inter |-> "ok", leaf |-> Nil]
Responses ==
    {EmptyRsp, GarbageRsp} \cup
    [form : {"cert"}, inter : {"ok", "garbage"},
     leaf : {Cert(s, i, c, nb, na) :
               s \in 1..MaxSerial, i \in {"id", "other"}, c \in BOOLEAN,
               nb \in NotBeforeOffsets, na \in NotAfterOffsets}]

\* d milliseconds pass: the offsets of a held certificate move back.  Of an
\* instant in the past main only ever uses that it is in the past.
Past(t) == IF t < 0 THEN Floor ELSE t
Age(c, d) ==
    IF c = Nil THEN Nil
    ELSE [c EXCEPT !.nb = Past(@ - d), !.na = Past(@ - d)]

validateAndStoreCrt_StrictWindow(rsp, fs, w) ==
    IF rsp.form # "cert" \/ rsp.inter = "garbage" \/ ~rsp.leaf.chain
    THEN [crt |-> Nil, err |-> "parse or verify error", fs |-> fs]
    ELSE IF rsp.leaf.nb >= 0 \/ rsp.leaf.na <= 0
    THEN [crt |-> Nil, err |-> "outside validity", fs |-> fs]
    ELSE [crt |-> rsp.leaf,
          err |-> IF w = "ok" THEN "ok" ELSE "write error",
          fs |-> WriteFile(fs, "crt.pem", "crt", rsp.leaf.ser, Perm0600, w)]

validateAndStoreCrt_WrongPath(rsp, fs, w) ==
    IF rsp.form # "cert" \/ rsp.inter = "garbage" \/ ~rsp.leaf.chain
    THEN [crt |-> Nil, err |-> "parse or verify error", fs |-> fs]
    ELSE IF rsp.leaf.nb > 0 \/ rsp.leaf.na < 0
    THEN [crt |-> Nil, err |-> "outside validity", fs |-> fs]
    ELSE [crt |-> rsp.leaf,
          err |-> IF w = "ok" THEN "ok" ELSE "write error",
          fs |-> WriteFile(fs, "csr", "crt", rsp.leaf.ser, Perm0600, w)]

validateAndStoreCrt_NoVerify(rsp, fs, w) ==
    IF rsp.form # "cert" \/ rsp.inter = "garbage"
    THEN [crt |-> Nil, err |-> "parse error", fs |-> fs]
    ELSE IF rsp.leaf.nb > 0 \/ rsp.leaf.na < 0
    THEN [crt |-> Nil, err |-> "outside validity", fs |-> fs]
    ELSE [crt |-> rsp.leaf,
          err |-> IF w = "ok" THEN "ok" ELSE "write error",
          fs |-> WriteFile(fs, "crt.pem", "crt", rsp.leaf.ser, Perm0600, w)]

validateAndStoreCrt(rsp, fs, w) ==
    IF rsp.form = "empty"
    THEN [crt |-> Nil, err |-> "Certify response does not include a certificate", fs |-> fs]
    ELSE IF rsp.form = "garbage"
    THEN [crt |-> Nil, err |-> "parse error", fs |-> fs]
    ELSE IF rsp.inter = "garbage"
    THEN [crt |-> Nil, err |-> "parse error", fs |-> fs]
    ELSE IF ~rsp.leaf.chain
    THEN [crt |-> Nil, err |-> "verify error", fs |-> fs]
    ELSE IF rsp.leaf.nb > 0
    THEN [crt |-> Nil, err |-> "Received a certificate that is not yet valid", fs |-> fs]
    ELSE IF rsp.leaf.na < 0
    THEN [crt |-> Nil, err |-> "Received a certificate that has expired", fs |-> fs]
    ELSE [crt |-> rsp.leaf,
          err |-> IF w = "ok" THEN "ok" ELSE "write error",
          fs |-> WriteFile(fs, "crt.pem", "crt", rsp.leaf.ser, Perm0600, w)]

beforeExpiry_Swapped(t) ==
    IF t < MIN_REFRESH_TIME THEN MIN_REFRESH_TIME
    ELSE LET r == (t \div RefreshFraction) * Second IN
         IF r > MAX_REFRESH_TIME THEN MAX_REFRESH_TIME ELSE r

beforeExpiry_WrongFloor(t) ==
    IF t < MIN_REFRESH_TIME THEN MAX_REFRESH_TIME
    ELSE LET r == (t \div Second) * RefreshFraction IN
         IF r > MAX_REFRESH_TIME THEN MAX_REFRESH_TIME ELSE r

\* lines 265-277, t being NotAfter as an offset from now, so that
\* time.Until(t) is t itself
beforeExpiry(t) ==
    LET expiry == t IN
    IF expiry < MIN_REFRESH_TIME THEN MIN_REFRESH_TIME
    ELSE LET r == (expiry \div Second) * RefreshFraction IN
         IF r > MAX_REFRESH_TIME THEN MAX_REFRESH_TIME ELSE r

Schedule_Inverted(c) ==
    IF c = Nil
    THEN beforeExpiry(c.na)
    ELSE MIN_REFRESH_TIME

\* lines 100-107: the interval before the next attempt
Schedule(c) ==
    IF c # Nil
    THEN beforeExpiry(c.na)
    ELSE MIN_REFRESH_TIME

AfterCertify_DropOnFailure(held, rpcOK, v) == v.crt

\* lines 90-98: what main holds after the call returned
AfterCertify(held, rpcOK, v) ==
    IF ~rpcOK THEN held ELSE v.crt

AfterAttempt_Fatal(outcome) ==
    IF outcome \in {"rpcfail", "invalid"} THEN "exited" ELSE "select"

\* lines 91-98: a failed call and a failed validation are logged with
\* log.Errorf, and main goes on to the select whatever the outcome
AfterAttempt(outcome) == "select"

\* what validation says of a response, whatever the directory holds
Verdict(rsp) == validateAndStoreCrt(rsp, [f \in FileNames |-> NoFile], "ok")

\* Of the responses that validation rejects, one for each error it reports:
\* after a rejected response main holds nil and has written nothing,
\* whichever response it was.
RejectedRsps ==
    LET rejected == {r \in Responses : Verdict(r).crt = Nil} IN
    {CHOOSE r \in rejected : Verdict(r).err = e : e \in {Verdict(r).err : r \in rejected}}

\* The service answers rsp, or the call fails (rpcOK = FALSE); w is the
\* outcome of the write of crt.pem, if validation gets that far.
Answers ==
    {[rpcOK |-> FALSE, rsp |-> EmptyRsp, w |-> "ok"]} \cup
    {[rpcOK |-> TRUE, rsp |-> r, w |-> "ok"] : r \in RejectedRsps} \cup
    {[rpcOK |-> TRUE, rsp |-> r, w |-> o] :
       r \in {x \in Responses : Verdict(x).crt # Nil},
       o \in WriteOutcomes}

\* The Certify call returns, with an error or with a response; main
\* validates and stores it, computes refreshIn and starts the timer.  The
\* offsets of the response are those at the instant of the return.
Returned(a) ==
    LET v == validateAndStoreCrt(a.rsp, files, a.w)
        c == AfterCertify(crt, a.rpcOK, v)
        s == Schedule(c)
        outcome == IF ~a.rpcOK THEN "rpcfail"
                   ELSE IF v.crt = Nil THEN "invalid"
                   ELSE IF v.err # "ok" THEN "writefail"
                   ELSE "stored"
    IN
    /\ crt' = c
    /\ files' = IF a.rpcOK THEN v.fs ELSE files
    /\ lastOutcome' = outcome
    /\ refreshIn' = s
    /\ timer' = s
    /\ pc' = AfterAttempt(outcome)
    /\ UNCHANGED <<flags, dirKind, dirPerm, preExisting, tokenFile, fatal, key,
                   csrb, reqToken, goodToken, sigVars, genFailed, csrFromNilKey,
                   peer, sh, inj, conf>>

CertifyReturns ==
    /\ pc = "certify"
    /\ \E a \in Answers : Returned(a)
    /\ UNCHANGED srv

\* The iteration ends: refreshIn is declared in the body of the loop, and the
\* outcome of the attempt belongs to the iteration.
EndIteration ==
    /\ refreshIn' = 0
    /\ timer' = 0
    /\ lastOutcome' = "none"
    /\ UNCHANGED <<reqToken, goodToken, crt>>

\* case <-time.NewTimer(refreshIn).C: continue
TimerFires ==
    /\ pc = "select"
    /\ timer <= 0
    /\ pc' = "loop"
    /\ EndIteration
    /\ UNCHANGED <<envVars, files, tokenFile, fatal, key, csrb, sigVars,
                   genFailed, csrFromNilKey>>

\* where main goes after the body of `case <-stop`: the body only logs, the
\* select ends and with it the body of the for loop
AfterStopCase == "loop"

\* case <-stop: log.Info("Shutting down...")
TakeStop ==
    /\ pc = "select"
    /\ stop = 1
    /\ stop' = 0
    /\ pc' = AfterStopCase
    /\ fatal' = fatal
    /\ EndIteration
    /\ UNCHANGED <<envVars, files, tokenFile, key, csrb, sigInFlight,
                   genFailed, csrFromNilKey>>

\* ------------------------------------------------------------ environment
\* Time passes while main is blocked in the select, until the timer is due.
Tick ==
    /\ pc = "select"
    /\ timer > 0
    /\ timer' = 0
    /\ crt' = Age(crt, timer)
    /\ UNCHANGED <<envVars, files, tokenFile, pc, fatal, key, csrb, reqToken,
                   goodToken, refreshIn, lastOutcome, sigVars, genFailed,
                   csrFromNilKey>>

\* SIGINT or SIGTERM.  Before signal.Notify (line 78) the default action of
\* the runtime ends the process; after it the signal is sent to the stop
\* channel (capacity 1) without blocking, and dropped when the channel is full.
Signal ==
    /\ pc # "exited"
    /\ IF pc \in {"loop", "certify", "select"}
       THEN /\ stop' = 1
            /\ sigInFlight' = (sigInFlight \/ pc = "certify")
            /\ UNCHANGED <<pc, fatal>>
       ELSE /\ Fatal("signal")
            /\ UNCHANGED <<stop, sigInFlight>>
    /\ UNCHANGED <<envVars, files, tokenFile, key, csrb, loopVars,
                   genFailed, csrFromNilKey>>

\* ---------------------------------------------------------- specification
Agent ==
    \/ LoadVerifier
    \/ CheckEndEntityDir
    \/ GenerateAndStoreKey
    \/ GenerateAndStoreCSR
    \/ ReadToken
    \/ Dial
    \/ LoopTop
    \/ CertifyReturns
    \/ TimerFires
    \/ TakeStop

Next ==
    \/ LoadVerifier
    \/ CheckEndEntityDir
    \/ GenerateAndStoreKey
    \/ GenerateAndStoreCSR
    \/ ReadToken
    \/ Dial
    \/ LoopTop
    \/ CertifyReturns
    \/ TimerFires
    \/ TakeStop
    \/ Tick
    \/ Signal

Spec == Init /\ [][Next]_vars

\* main runs whenever it can, time passes, every Certify call returns, and a
\* signal waiting in the stop channel is taken by the select
FairSpec ==
    /\ Spec
    /\ WF_vars(Agent)
    /\ WF_vars(Tick)
    /\ SF_vars(TakeStop)

\* ================================================================= claims
\* a SIGINT or SIGTERM has been delivered to the process: it ended the
\* process during startup, or it is in the stop channel
SigDelivered == fatal = "signal" \/ stop = 1

\* ------------------------------------------- beforeExpiry on its own
\* The agent with a command line and a directory that pass every check, at
\* position p of main, holding c.
AgentAt(p, c) ==
    /\ flags = [trustAnchors |-> "ok", dir |-> "set", name |-> "id", token |-> "set"]
    /\ dirKind = "dir"
    /\ dirPerm = Perm0700
    /\ preExisting = {}
    /\ files = InitialFiles({})
    /\ tokenFile = 1
    /\ pc = p
    /\ fatal = ""
    /\ key = "nil"
    /\ csrb = "nil"
    /\ reqToken = 0
    /\ crt = c
    /\ refreshIn = 0
    /\ timer = 0
    /\ stop = 0
    /\ genFailed = "none"
    /\ csrFromNilKey = FALSE
    /\ lastOutcome = "none"
    /\ sigInFlight = FALSE
    /\ goodToken = 0

\* what remains of the validity of the held certificate, in ms: every value
\* up to MaxExpiry, and values around the 100s of the example, 24h and 30h
\* (from where 80% reaches MAX_REFRESH_TIME)
ExpiryInputs ==
    (0..MaxExpiry) \cup {100000, 86400000, 107999999, 108000000, 108001000, 148900000}

ExpiryInit ==
    /\ \E e \in ExpiryInputs : AgentAt("schedule", Cert(1, "id", TRUE, Floor, e))
    /\ srv = SrvDefault
    /\ Alone

\* lines 100-107 with a certificate held
ComputeRefresh ==
    /\ pc = "schedule"
    /\ crt # Nil
    /\ refreshIn' = Schedule(crt)
    /\ timer' = Schedule(crt)
    /\ pc' = "select"
    /\ UNCHANGED <<envVars, files, tokenFile, fatal, key, csrb, reqToken,
                   goodToken, crt, lastOutcome, sigVars, genFailed,
                   csrFromNilKey>>

ExpiryNext == ComputeRefresh

ExpirySpec == ExpiryInit /\ [][ExpiryNext]_vars

\* ------------------------------------------------ the identity server
procVars == <<flags, dirKind, dirPerm, files, tokenFile, pc, fatal, key, csrb,
              reqToken, crt, refreshIn, timer, stop, preExisting, genFailed,
              csrFromNilKey, lastOutcome, sigInFlight, goodToken>>
agentVars == <<procVars, peer, sh, inj, conf>>

\* values of -issuance-lifetime and -clock-skew-allowance: flag.Duration
\* takes any duration, negative ones and zero included (ms)
Lifetimes == {0 - 3600000, 0, 20000, DefaultLifetime}
Skews == {0 - 1000, DefaultSkew, 10000}

CommandLines ==
    [ns : {"linkerd", "other"},
     td : {"cluster.local", "invalid"},
     anchors : {"ok", "unreadable", "malformed"},
     creds : {"ok", "unreadable"},
     issuerChain : BOOLEAN,
     issuerName : {<<"identity", "linkerd", "cluster.local">>,
                   <<"identity", "other", "cluster.local">>},
     lifetime : Lifetimes,
     skew : Skews]

ServerInit ==
    /\ AgentAt("off", Nil)
    /\ srv \in {SrvStart(cl) : cl \in CommandLines}
    /\ Alone

\* log.Fatalf in the server's main
SrvFatal(why) ==
    /\ srv' = [srv EXCEPT !.pc = "exited", !.fatal = why]
    /\ UNCHANGED agentVars

SrvGoto(p) ==
    /\ srv' = [srv EXCEPT !.pc = p]
    /\ UNCHANGED agentVars

\* lines 50-53
SrvNewTrustDomain ==
    /\ srv.pc = "trustDomain"
    /\ IF srv.td = "invalid"
       THEN SrvFatal("Invalid trust domain")
       ELSE SrvGoto("trustAnchors")

\* lines 55-62
SrvReadTrustAnchors ==
    /\ srv.pc = "trustAnchors"
    /\ IF srv.anchors # "ok"
       THEN SrvFatal("Failed to read trust anchors")
       ELSE SrvGoto("creds")

\* lines 64-67
SrvReadPEMCreds ==
    /\ srv.pc = "creds"
    /\ IF srv.creds # "ok"
       THEN SrvFatal("Failed to read CA")
       ELSE SrvGoto("verify")

\* line 69
expectedName(controllerNS, trustDomain) == <<"identity", controllerNS, trustDomain>>

verifyIssuer_ChainOnly(chain, crtName, name) == chain

\* line 70: creds.Crt.Verify(trustAnchors, expectedName)
verifyIssuer(chain, crtName, name) == chain /\ crtName = name

\* lines 69-72
SrvVerifyIssuer ==
    /\ srv.pc = "verify"
    /\ IF ~verifyIssuer(srv.issuerChain, srv.issuerName, expectedName(srv.ns, srv.td))
       THEN SrvFatal("Failed to verify issuer credentials")
       ELSE SrvGoto("newCA")

\* lines 74-80: tls.NewCA returns the CA alone; err is still the nil of
\* line 64, so the test of line 78 never fires
SrvNewCA ==
    /\ srv.pc = "newCA"
    /\ srv' = [srv EXCEPT !.pc = "k8s",
                          !.ca = [built |-> TRUE, lifetime |-> srv.lifetime,
                                  skew |-> srv.skew]]
    /\ UNCHANGED agentVars

\* lines 82-91
SrvNewValidator ==
    /\ srv.pc = "k8s"
    /\ \E r \in {"ok", "Failed to load kubeconfig",
                  "Failed to initialize identity service"} :
         IF r # "ok" THEN SrvFatal(r) ELSE SrvGoto("listen")

\* lines 93-97: the admin server is started, then net.Listen
SrvListen ==
    /\ srv.pc = "listen"
    /\ \E ok \in BOOLEAN :
         srv' = IF ok
                THEN [srv EXCEPT !.pc = "await", !.admin = TRUE, !.listening = TRUE,
                                 !.everListened = TRUE]
                ELSE [srv EXCEPT !.pc = "exited", !.admin = TRUE,
                                 !.fatal = "Failed to listen"]
    /\ UNCHANGED agentVars

\* lines 99-104: the goroutine calls srv.Serve(lis)
SrvServe ==
    /\ srv.pc = "await"
    /\ srv.listening
    /\ ~srv.serving
    /\ srv' = [srv EXCEPT !.serving = TRUE]
    /\ UNCHANGED agentVars

SrvGracefulStop_Ignored ==
    /\ srv.pc = "await"
    /\ srv.stop = 1
    /\ srv' = [srv EXCEPT !.stop = 0]
    /\ UNCHANGED agentVars

\* lines 105-107: <-stop, then srv.GracefulStop() and main returns
SrvGracefulStop ==
    /\ srv.pc = "await"
    /\ srv.stop = 1
    /\ srv' = [srv EXCEPT !.pc = "exited", !.stop = 0, !.admin = FALSE,
                          !.listening = FALSE, !.serving = FALSE]
    /\ UNCHANGED agentVars

\* SIGINT or SIGTERM after signal.Notify (line 48): buffered in stop
\* (capacity 1), dropped when the channel is full
SrvSignal ==
    /\ srv.pc # "exited"
    /\ srv' = [srv EXCEPT !.stop = 1]
    /\ UNCHANGED agentVars

ServerNext ==
    \/ SrvNewTrustDomain
    \/ SrvReadTrustAnchors
    \/ SrvReadPEMCreds
    \/ SrvVerifyIssuer
    \/ SrvNewCA
    \/ SrvNewValidator
    \/ SrvListen
    \/ SrvServe
    \/ SrvGracefulStop
    \/ SrvSignal

ServerSpec == ServerInit /\ [][ServerNext]_vars

\* the steps of the server's main goroutine
SrvMain ==
    \/ SrvNewTrustDomain
    \/ SrvReadTrustAnchors
    \/ SrvReadPEMCreds
    \/ SrvVerifyIssuer
    \/ SrvNewCA
    \/ SrvNewValidator
    \/ SrvListen
    \/ SrvGracefulStop

\* main and the goroutine of line 101 keep running
ServerFairSpec == ServerSpec /\ WF_vars(SrvMain) /\ WF_vars(SrvServe)

\* --------------------------------------- issuance and validation together
\* The validity window the CA gives a certificate it issues at now.
Issue(now, validity) ==
    [nb |-> now - validity.skew, na |-> now + validity.lifetime]

\* The leaf as the agent's validation sees it: the window as offsets from
\* the reading of the agent's clock at that instant.
SeenAt(window, reading) ==
    Cert(1, "id", TRUE, window.nb - reading, window.na - reading)

\* the agent's clock reading when it validates, minus the issuer's clock
\* reading when it issued (ms): negative when the agent's clock is behind by
\* more than the call takes to return
Readings ==
    {Second * k : k \in (0 - MaxDrift)..MaxDrift} \cup
    {DefaultLifetime - Second, DefaultLifetime, DefaultLifetime + Second}

\* The server serving with a CA whose validity policy has lifetime > 0 and
\* clockSkewAllowance >= 0; the agent as it is when its first Certify call
\* is in flight (the directory is not 0700 and the key was not written, as
\* checkEndEntityDir and generateAndStoreKey leave them).
RoundTripInit ==
    /\ flags = [trustAnchors |-> "ok", dir |-> "set", name |-> "id", token |-> "set"]
    /\ dirKind = "dir"
    /\ dirPerm \in DirPerms \ {Perm0700}
    /\ preExisting = {}
    /\ files = [InitialFiles({}) EXCEPT !["csr"] = File("csr", 0, Perm0400)]
    /\ tokenFile = 1
    /\ pc = "certify"
    /\ fatal = ""
    /\ key = "key"
    /\ csrb = "csr"
    /\ reqToken = 1
    /\ goodToken = 1
    /\ crt = Nil
    /\ refreshIn = 0
    /\ timer = 0
    /\ stop = 0
    /\ genFailed = "none"
    /\ csrFromNilKey = FALSE
    /\ lastOutcome = "none"
    /\ sigInFlight = FALSE
    /\ Alone
    /\ \E l \in {x \in Lifetimes : x > 0}, k \in {x \in Skews : x >= 0} :
         srv = [SrvDefault EXCEPT !.pc = "await", !.lifetime = l, !.skew = k,
                                  !.ca = [built |-> TRUE, lifetime |-> l, skew |-> k],
                                  !.admin = TRUE, !.listening = TRUE,
                                  !.serving = TRUE, !.everListened = TRUE]

\* The service issues a certificate for the request and the agent validates
\* and stores it.
RoundTrip ==
    /\ pc = "certify"
    /\ srv.serving
    /\ \E reading \in Readings :
         LET leaf == SeenAt(Issue(0, srv.ca), reading) IN
         /\ srv' = [srv EXCEPT !.issued = leaf]
         /\ Returned([rpcOK |-> TRUE,
                      rsp |-> [form |-> "cert", inter |-> "ok", leaf |-> leaf],
                      w |-> "ok"])

RoundTripNext == RoundTrip

RoundTripSpec == RoundTripInit /\ [][RoundTripNext]_vars

\* ------------------------------------- the agent where nothing fails
\* A complete command line, a readable token, trust anchors that load and
\* an end-entity directory with nothing in it, of either mode.
GoodInit ==
    /\ AgentInit
    /\ flags = [trustAnchors |-> "ok", dir |-> "set", name |-> "id", token |-> "set"]
    /\ dirKind = "dir"
    /\ preExisting = {}
    /\ tokenFile # 0
    /\ srv = SrvDefault
    /\ Alone

\* the errors that come from the operating system, the network or the
\* service and not from the command line or the directory
EnvFailures ==
    {"stat error", "panic", "write error", "Failed to create CSR",
     "Failed to write CSR", "Failed to read token", "dial error", "signal"}

\* A step in which every system call succeeds, the token file is readable
\* and the service answers with a certificate that validates.
GoodStep ==
    /\ fatal' \notin EnvFailures
    /\ genFailed' = "none"
    /\ lastOutcome' \in {"none", "stored"}
    /\ tokenFile' # 0

GoodNext ==
    \/ LoadVerifier /\ GoodStep
    \/ CheckEndEntityDir /\ GoodStep
    \/ GenerateAndStoreKey /\ GoodStep
    \/ GenerateAndStoreCSR /\ GoodStep
    \/ ReadToken /\ GoodStep
    \/ Dial /\ GoodStep
    \/ LoopTop /\ GoodStep
    \/ CertifyReturns /\ GoodStep
    \/ TimerFires /\ GoodStep
    \/ Tick /\ GoodStep

\* main keeps running and time passes
GoodSpec == GoodInit /\ [][GoodNext]_vars /\ WF_vars(GoodNext)

\* ------------------------------------- two agent processes on one -dir
\* Both processes run the same program with the same command line, as the
\* same user; peer.root says whether that user may open for writing a file
\* of mode 0400 (uid 0 or CAP_DAC_OVERRIDE).  Every system call succeeds
\* unless the permissions of a file forbid it.
PairInit ==
    /\ AgentInit
    /\ flags = [trustAnchors |-> "ok", dir |-> "set", name |-> "id", token |-> "set"]
    /\ dirKind = "dir"
    /\ preExisting = {}
    /\ tokenFile # 0
    /\ srv = SrvDefault
    /\ peer \in {[PeerOff EXCEPT !.root = r] : r \in BOOLEAN}
    /\ sh = ShOff
    /\ inj = InjOff
    /\ conf = ConfOff

\* open(2) with O_WRONLY|O_CREATE|O_TRUNC on path p: refused when the file
\* exists without write permission and the user is not privileged
Denied(fs, p) == fs[p].exists /\ fs[p].mode = Perm0400 /\ ~peer.root

\* A step of the first process in which every system call succeeds, but
\* for the write of the CSR when the file is there and may not be opened.
PairStep ==
    IF pc = "genCSR" /\ Denied(files, "csr")
    THEN fatal' = "Failed to write CSR" /\ files' = files
    ELSE GoodStep

\* the first process crashes or is killed (SIGKILL)
Kill ==
    /\ pc # "exited"
    /\ Fatal("killed")
    /\ UNCHANGED <<envVars, files, tokenFile, key, csrb, loopVars, sigVars,
                   genFailed, csrFromNilKey>>

\* a step of the second process: it becomes p and leaves the directory as fs
PeerStep(p, fs) ==
    /\ peer' = p
    /\ files' = fs
    /\ UNCHANGED <<flags, dirKind, dirPerm, preExisting, srv, sh, inj, conf, tokenFile,
                   pc, fatal, key, csrb, loopVars, sigVars, genFailed, csrFromNilKey>>

PeerFatal(why) == PeerStep([peer EXCEPT !.pc = "exited", !.fatal = why], files)

\* the second process is started; after records where the first one was
PeerStart ==
    /\ peer.pc = "off"
    /\ PeerStep([peer EXCEPT !.pc = "loadVerifier", !.after = pc], files)

\* lines 36-39
PeerLoadVerifier ==
    /\ peer.pc = "loadVerifier"
    /\ IF loadVerifier(flags.trustAnchors) # "ok"
       THEN PeerFatal("Failed to load trust anchors")
       ELSE PeerStep([peer EXCEPT !.pc = "checkDir"], files)

\* lines 41-44
PeerCheckEndEntityDir ==
    /\ peer.pc = "checkDir"
    /\ LET err == checkEndEntityDir(flags.dir, dirKind, dirPerm, files, FALSE) IN
       IF err # "ok"
       THEN PeerFatal(err)
       ELSE PeerStep([peer EXCEPT !.pc = "genKey"], files)

\* lines 46-49
PeerGenerateAndStoreKey ==
    /\ peer.pc = "genKey"
    /\ LET r == generateAndStoreKey(files, TRUE, "bytes", "ok") IN
       IF r.err # "ok"
       THEN PeerFatal(r.err)
       ELSE PeerStep([peer EXCEPT !.pc = "genCSR", !.key = r.key], r.fs)

\* lines 51-54
PeerGenerateAndStoreCSR ==
    /\ peer.pc = "genCSR"
    /\ LET w == IF Denied(files, "csr") THEN "openfail" ELSE "ok"
           r == generateAndStoreCSR(files, flags.name, peer.key, TRUE, w)
       IN
       IF r.err # "ok"
       THEN PeerStep([peer EXCEPT !.pc = "exited", !.fatal = r.err], r.fs)
       ELSE PeerStep([peer EXCEPT !.pc = "readToken", !.csrb = r.csrb], r.fs)

\* lines 56-79: the token is read, the service dialled, and the second
\* process is at the top of its loop
PeerEntersLoop ==
    /\ peer.pc = "readToken"
    /\ IF flags.token = ""
       THEN PeerFatal("-token must be specified")
       ELSE PeerStep([peer EXCEPT !.pc = "loop"], files)

PairNext ==
    \/ LoadVerifier /\ PairStep
    \/ CheckEndEntityDir /\ PairStep
    \/ GenerateAndStoreKey /\ PairStep
    \/ GenerateAndStoreCSR /\ PairStep
    \/ ReadToken /\ PairStep
    \/ Dial /\ PairStep
    \/ Kill
    \/ PeerStart
    \/ PeerLoadVerifier
    \/ PeerCheckEndEntityDir
    \/ PeerGenerateAndStoreKey
    \/ PeerGenerateAndStoreCSR
    \/ PeerEntersLoop

PairSpec == PairInit /\ [][PairNext]_vars

\* ------------------------------------------------- ShouldInjectWebhook
\* lines 639-642: the annotation and the two values the function names
ProxyInjectAnnotation == "linkerd.io/inject"
ProxyInjectEnabled == "enabled"
ProxyInjectDisabled == "disabled"

\* m[k] of a Go map: the zero value "" when k is not in the map
Lookup(m, k) == IF k \in DOMAIN m THEN m[k] ELSE ""

\* annotation maps: without the annotation, or with it set to a value
AnnotationValues == {"enabled", "disabled", "", "Enabled", "true"}
AnnotationMaps ==
    {NoAnnotations} \cup {[k \in {ProxyInjectAnnotation} |-> v] : v \in AnnotationValues}

ShouldInjectWebhook_NsOnly(injectable, podAnnotations, nsAnnotations) ==
    IF ~injectable THEN FALSE
    ELSE IF Lookup(nsAnnotations, ProxyInjectAnnotation) = ProxyInjectEnabled THEN TRUE
    ELSE Lookup(podAnnotations, ProxyInjectAnnotation) = ProxyInjectEnabled

\* lines 643-655; injectable is what r.Injectable() returns
ShouldInjectWebhook(injectable, podAnnotations, nsAnnotations) ==
    IF ~injectable THEN FALSE
    ELSE LET podAnnotation == Lookup(podAnnotations, ProxyInjectAnnotation)
             nsAnnotation == Lookup(nsAnnotations, ProxyInjectAnnotation)
         IN
         IF nsAnnotation = ProxyInjectEnabled /\ podAnnotation # ProxyInjectDisabled
         THEN TRUE
         ELSE podAnnotation = ProxyInjectEnabled

InjectInit ==
    /\ AgentAt("off", Nil)
    /\ srv = SrvDefault
    /\ peer = PeerOff
    /\ sh = ShOff
    /\ conf = ConfOff
    /\ inj \in [pc : {"call"}, injectable : BOOLEAN, pod : AnnotationMaps,
                 ns : AnnotationMaps, result : {FALSE}]

CallShouldInjectWebhook ==
    /\ inj.pc = "call"
    /\ inj' = [inj EXCEPT !.pc = "done",
                          !.result = ShouldInjectWebhook(inj.injectable, inj.pod, inj.ns)]
    /\ UNCHANGED <<procVars, srv, peer, sh, conf>>

InjectNext == CallShouldInjectWebhook

InjectSpec == InjectInit /\ [][InjectNext]_vars

\* ------------------------------------------- the sidecar's start script
\* sh.disabled: LINKERD2_PROXY_IDENTITY_DISABLED is set to a non-empty value.
\* The script passes -dir and -name only, so -trust-anchors, -token and -addr
\* keep the defaults of the agent's flag definitions.
ScriptInit ==
    /\ AgentInit
    /\ flags = [trustAnchors |-> "", dir |-> "set", name |-> "id", token |-> ""]
    /\ srv = SrvDefault
    /\ peer = PeerOff
    /\ inj = InjOff
    /\ conf = ConfOff
    /\ sh \in [pc : {"test"}, disabled : BOOLEAN]

\* line 41: if [ -z "${LINKERD2_PROXY_IDENTITY_DISABLED:-}" ]
ShTest ==
    /\ sh.pc = "test"
    /\ sh' = [sh EXCEPT !.pc = IF sh.disabled THEN "fi" ELSE "identity"]
    /\ UNCHANGED <<procVars, srv, peer, inj, conf>>

\* line 42: the shell waits while linkerd2-proxy-identity runs
ShIdentity ==
    /\ sh.pc = "identity"
    /\ Agent

\* line 42 under set -e (line 39): a non-zero exit status ends the script
ShIdentityExits ==
    /\ sh.pc = "identity"
    /\ pc = "exited"
    /\ sh' = [sh EXCEPT !.pc = IF fatal = "" THEN "fi" ELSE "aborted"]
    /\ UNCHANGED <<procVars, srv, peer, inj, conf>>

\* line 44: linkerd2-proxy
ShProxy ==
    /\ sh.pc = "fi"
    /\ sh' = [sh EXCEPT !.pc = "proxy"]
    /\ UNCHANGED <<procVars, srv, peer, inj, conf>>

ScriptNext ==
    \/ ShTest
    \/ ShIdentity
    \/ ShIdentityExits
    \/ ShProxy

\* the shell and the agent keep running
ScriptSpec == ScriptInit /\ [][ScriptNext]_vars /\ WF_vars(ScriptNext)

\* ------------------------------------------------------------- GetPatch
\* the kinds of pkg/k8s that inject.go names
DaemonSet == "daemonset"
Deployment == "deployment"
Job == "job"
Pod == "pod"
ReplicaSet == "replicaset"
ReplicationController == "replicationcontroller"
StatefulSet == "statefulset"

\* the kinds a ResourceConfig is given: the supported ones as manifests
\* spell them, two of them in another case, and kinds without a pod
KindStrings ==
    {"DaemonSet", "Deployment", "deployment", "Job", "Pod", "POD", "ReplicaSet",
     "ReplicationController", "StatefulSet", "Service", "CronJob", ""}

\* strings.ToLower on KindStrings
ToLower(s) ==
    CASE s = "DaemonSet" -> "daemonset"
      [] s = "Deployment" -> "deployment"
      [] s = "Job" -> "job"
      [] s \in {"Pod", "POD"} -> "pod"
      [] s = "ReplicaSet" -> "replicaset"
      [] s = "ReplicationController" -> "replicationcontroller"
      [] s = "StatefulSet" -> "statefulset"
      [] s = "Service" -> "service"
      [] s = "CronJob" -> "cronjob"
      [] OTHER -> s

\* lines 48-56
injectableKinds ==
    <<DaemonSet, Deployment, Job, Pod, ReplicaSet, ReplicationController, StatefulSet>>

KindInjectable_NoJob(kind) ==
    \E i \in DOMAIN injectableKinds :
        ToLower(kind) = injectableKinds[i] /\ injectableKinds[i] # Job

\* lines 171-178
KindInjectable(kind) ==
    \E i \in DOMAIN injectableKinds : ToLower(kind) = injectableKinds[i]

getFreshWorkloadObj_PodByDefault(kind) ==
    CASE ToLower(kind) = Deployment -> "v1beta1.Deployment"
      [] ToLower(kind) = ReplicationController -> "v1.ReplicationController"
      [] ToLower(kind) = ReplicaSet -> "v1beta1.ReplicaSet"
      [] ToLower(kind) = Job -> "batchv1.Job"
      [] ToLower(kind) = DaemonSet -> "v1beta1.DaemonSet"
      [] ToLower(kind) = StatefulSet -> "appsv1.StatefulSet"
      [] OTHER -> "v1.Pod"

\* lines 181-200: the type of the object returned, "nil" for none
getFreshWorkloadObj(kind) ==
    CASE ToLower(kind) = Deployment -> "v1beta1.Deployment"
      [] ToLower(kind) = ReplicationController -> "v1.ReplicationController"
      [] ToLower(kind) = ReplicaSet -> "v1beta1.ReplicaSet"
      [] ToLower(kind) = Job -> "batchv1.Job"
      [] ToLower(kind) = DaemonSet -> "v1beta1.DaemonSet"
      [] ToLower(kind) = StatefulSet -> "appsv1.StatefulSet"
      [] ToLower(kind) = Pod -> "v1.Pod"
      [] OTHER -> "nil"

\* lines 25-31
localhostDNSNameOverride == "localhost."
controllerDeployName == "linkerd-controller"
identityDeployName == "linkerd-identity"

\* conf.globalConfig.GetLinkerdNamespace()
LinkerdNamespace == "linkerd"

\* the labels and annotations of pkg/k8s that inject.go names
ControllerNSLabel == "linkerd.io/control-plane-ns"
ProxyDeploymentLabel == "linkerd.io/proxy-deployment"
ProxyReplicationControllerLabel == "linkerd.io/proxy-replicationcontroller"
ProxyReplicaSetLabel == "linkerd.io/proxy-replicaset"
ProxyJobLabel == "linkerd.io/proxy-job"
ProxyDaemonSetLabel == "linkerd.io/proxy-daemonset"
ProxyStatefulSetLabel == "linkerd.io/proxy-statefulset"
ProxyVersionAnnotation == "linkerd.io/proxy-version"
IdentityModeAnnotation == "linkerd.io/identity-mode"
IdentityModeDefault == "default"
IdentityModeDisabled == "disabled"
IdentityEndEntityVolumeName == "linkerd-identity-end-entity"
ProxyContainerName == "linkerd-proxy"
InitContainerName == "linkerd-init"

\* m[k] = v on a map kept as a set of <<key, value>>
Put(m, k, v) == {e \in m : e[1] # k} \cup {<<k, v>>}

\* lines 314-317; template is "nil" for a nil *v1.PodTemplateSpec, whose
\* field cannot be addressed
complete(c, template) ==
    IF template = "nil"
    THEN [c EXCEPT !.pc = "panicked"]
    ELSE [c EXCEPT !.podSpec = "set", !.objMeta = "template"]

\* lines 241-243, 257-259, ...: yaml.Unmarshal(bytes, v) fails
UnmarshalError(c) == [c EXCEPT !.err = "yaml"]

\* lines 252-253, 261-262, ...: conf.obj = v; conf.podLabels[label] = v.Name
Keep(c, obj, label) ==
    [c EXCEPT !.obj = obj, !.podLabels = Put(@, label, c.bytes.name)]

\* lines 212-312
parse(c) ==
    LET obj == getFreshWorkloadObj(c.kind)
        b == c.bytes
    IN
    CASE obj = "v1beta1.Deployment" ->
            IF ~b.ok THEN UnmarshalError(c)
            ELSE LET c1 == [c EXCEPT
                        !.controllerDNSNameOverride =
                            IF b.name = controllerDeployName /\ b.namespace = LinkerdNamespace
                            THEN localhostDNSNameOverride ELSE @,
                        !.identityDNSNameOverride =
                            IF b.name = identityDeployName /\ b.namespace = LinkerdNamespace
                            THEN localhostDNSNameOverride ELSE @]
                 IN complete(Keep(c1, obj, ProxyDeploymentLabel), "template")
      [] obj = "v1.ReplicationController" ->
            IF ~b.ok THEN UnmarshalError(c)
            ELSE complete(Keep(c, obj, ProxyReplicationControllerLabel),
                          IF b.template THEN "template" ELSE "nil")
      [] obj = "v1beta1.ReplicaSet" ->
            IF ~b.ok THEN UnmarshalError(c)
            ELSE complete(Keep(c, obj, ProxyReplicaSetLabel), "template")
      [] obj = "batchv1.Job" ->
            IF ~b.ok THEN UnmarshalError(c)
            ELSE complete(Keep(c, obj, ProxyJobLabel), "template")
      [] obj = "v1beta1.DaemonSet" ->
            IF ~b.ok THEN UnmarshalError(c)
            ELSE complete(Keep(c, obj, ProxyDaemonSetLabel), "template")
      [] obj = "appsv1.StatefulSet" ->
            IF ~b.ok THEN UnmarshalError(c)
            ELSE complete(Keep(c, obj, ProxyStatefulSetLabel), "template")
      [] obj = "v1.Pod" ->
            IF ~b.ok THEN UnmarshalError(c)
            ELSE [c EXCEPT !.obj = obj, !.podSpec = "set", !.objMeta = "pod"]
      [] OTHER -> c

\* lines 419-464: the environment every sidecar gets
BaseEnv ==
    {"LINKERD2_PROXY_LOG", "LINKERD2_PROXY_DESTINATION_SVC_ADDR",
     "LINKERD2_PROXY_CONTROL_LISTEN_ADDR", "LINKERD2_PROXY_METRICS_LISTEN_ADDR",
     "LINKERD2_PROXY_OUTBOUND_LISTEN_ADDR", "LINKERD2_PROXY_INBOUND_LISTEN_ADDR",
     "LINKERD2_PROXY_DESTINATION_PROFILE_SUFFIXES",
     "LINKERD2_PROXY_INBOUND_ACCEPT_KEEPALIVE",
     "LINKERD2_PROXY_OUTBOUND_CONNECT_KEEPALIVE", "K8S_NS",
     "LINKERD2_PROXY_DESTINATION_CONTEXT"}

\* lines 492-533
IdentityEnv ==
    {"K8S_SA", "L5D_NS", "L5D_TRUST_DOMAIN", "LINKERD2_PROXY_IDENTITY_LOCAL_NAME",
     "LINKERD2_PROXY_IDENTITY_DIR", "LINKERD2_PROXY_IDENTITY_TRUST_ANCHORS",
     "LINKERD2_PROXY_IDENTITY_TOKEN_FILE", "LINKERD2_PROXY_IDENTITY_SVC_ADDR",
     "LINKERD2_PROXY_IDENTITY_SVC_NAME", "LINKERD2_PROXY_DESTINATION_SVC_NAME"}

\* lines 349-357
ServiceDNS(service, override) ==
    IF override # "" THEN override ELSE service

\* lines 320-584, the sidecar it builds kept in the patch that receives it
injectPodSpec(c, patch) ==
    LET withCapacity ==
            IF c.bytes.prometheus
            THEN {"LINKERD2_PROXY_OUTBOUND_ROUTER_CAPACITY"} ELSE {}
        p1 == IF c.idctx
              THEN [patch EXCEPT
                        !.env = BaseEnv \cup withCapacity \cup IdentityEnv,
                        !.roots = IF c.bytes.volumes THEN @ ELSE @ \cup {"volumes"},
                        !.volumes = @ \cup {IdentityEndEntityVolumeName},
                        !.volumeMounts = @ \cup {IdentityEndEntityVolumeName}]
              ELSE [patch EXCEPT
                        !.env = BaseEnv \cup withCapacity
                                        \cup {"LINKERD2_PROXY_IDENTITY_DISABLED"}]
        p2 == [p1 EXCEPT
                  !.destinationDNS =
                      ServiceDNS("linkerd-destination", c.controllerDNSNameOverride),
                  !.identityDNS =
                      IF c.idctx
                      THEN ServiceDNS("linkerd-identity", c.identityDNSNameOverride)
                      ELSE @,
                  !.containers = @ \cup {ProxyContainerName}]
    IN
    IF c.cni THEN p2
    ELSE [p2 EXCEPT
             !.roots = IF c.bytes.initContainers THEN @ ELSE @ \cup {"initContainers"},
             !.initContainers = @ \cup {InitContainerName}]

injectObjectMeta_Inverted(c, patch) ==
    [patch EXCEPT
        !.roots = IF c.bytes.annotated THEN @ ELSE @ \cup {"annotations"},
        !.annotations = @ \cup
            {<<ProxyVersionAnnotation, "version">>,
             <<IdentityModeAnnotation,
               IF ~c.idctx THEN IdentityModeDefault ELSE IdentityModeDisabled>>},
        !.labels = @ \cup c.podLabels]

\* lines 588-603
injectObjectMeta(c, patch) ==
    [patch EXCEPT
        !.roots = IF c.bytes.annotated THEN @ ELSE @ \cup {"annotations"},
        !.annotations = @ \cup
            {<<ProxyVersionAnnotation, "version">>,
             <<IdentityModeAnnotation,
               IF c.idctx THEN IdentityModeDefault ELSE IdentityModeDisabled>>},
        !.labels = @ \cup c.podLabels]

\* the workloads: yaml.Unmarshal succeeds or not; the name and namespace of
\* the object; whether a replication controller has a template; whether the
\* pod has annotations, volumes and init containers of its own; whether one
\* of its images has an entry in proxyOutboundCapacity
Workloads ==
    [ok : BOOLEAN,
     name : {"web", controllerDeployName, identityDeployName},
     namespace : {LinkerdNamespace, "emojivoto"},
     template : BOOLEAN,
     annotated : BOOLEAN, volumes : BOOLEAN, initContainers : BOOLEAN,
     prometheus : BOOLEAN]

\* lines 79-92: NewResourceConfig(...).WithKind(kind), and what GetPatch is
\* called with
PatchInit ==
    /\ AgentAt("off", Nil)
    /\ srv = SrvDefault
    /\ peer = PeerOff
    /\ sh = ShOff
    /\ inj = InjOff
    /\ \E kind \in KindStrings, b \in Workloads, idctx, cni, decision \in BOOLEAN :
        /\ (~b.template => ToLower(kind) = ReplicationController)
        /\ conf = [ConfOff EXCEPT
                      !.pc = "new", !.kind = kind, !.bytes = b, !.idctx = idctx,
                      !.cni = cni, !.decision = decision,
                      !.podLabels = {<<ControllerNSLabel, LinkerdNamespace>>}]

\* lines 140-145
GetPatchParse ==
    /\ conf.pc = "new"
    /\ LET c == parse(conf) IN
        conf' = IF c.pc = "panicked" THEN c
                ELSE IF c.err # "nil" THEN [c EXCEPT !.pc = "returned"]
                ELSE [c EXCEPT !.pc = "parsed"]
    /\ UNCHANGED <<procVars, srv, peer, sh, inj>>

\* lines 147-152
NewPatch(kind) ==
    [NoPatch EXCEPT !.kind = IF ToLower(kind) = Pod THEN "pod" ELSE "deployment"]

GetPatchInject_Always ==
    /\ conf.pc = "parsed"
    /\ conf' = [conf EXCEPT
                   !.pc = "returned",
                   !.patch = injectObjectMeta(conf, injectPodSpec(conf, NewPatch(conf.kind))),
                   !.reports = 1]
    /\ UNCHANGED <<procVars, srv, peer, sh, inj>>

\* lines 147-167
GetPatchInject ==
    /\ conf.pc = "parsed"
    /\ LET patch == NewPatch(conf.kind) IN
        conf' = IF conf.podSpec # "nil"
                THEN [conf EXCEPT
                        !.pc = "returned",
                        !.patch = IF conf.decision
                                  THEN injectObjectMeta(conf, injectPodSpec(conf, patch))
                                  ELSE patch,
                        !.reports = 1]
                ELSE [conf EXCEPT
                        !.pc = "returned",
                        !.patch = patch,
                        !.UnsupportedResource = TRUE,
                        !.reports = 1]
    /\ UNCHANGED <<procVars, srv, peer, sh, inj>>

\* lines 171-178, called by the users of a ResourceConfig
CallKindInjectable ==
    /\ conf.pc \notin {"off", "panicked"}
    /\ conf.kindInjectable = "?"
    /\ conf' = [conf EXCEPT
                   !.kindInjectable = IF KindInjectable(conf.kind) THEN "true" ELSE "false"]
    /\ UNCHANGED <<procVars, srv, peer, sh, inj>>

PatchNext ==
    \/ GetPatchParse
    \/ GetPatchInject
    \/ CallKindInjectable

PatchSpec == PatchInit /\ [][PatchNext]_vars

\* C1: the step of the select that takes the shutdown signal from the stop
\* channel (and logs it) ends the agent, so that no Certify call is made
\* after the signal was taken.
C1_ShutdownExits ==
    [][(pc = "select" /\ stop = 1 /\ stop' = 0) => pc' = "exited"]_vars

\* C2: when a Certify response fails validation while the agent holds a
\* certificate, the agent holds that same certificate afterwards, schedules
\* the next refresh from it, and the certificate file is unchanged.
C2_PreviousRetained ==
    [][(pc = "certify" /\ pc' = "select" /\ lastOutcome' = "invalid" /\ crt # Nil)
         => (crt' = crt /\ refreshIn' = beforeExpiry(crt.na) /\ files' = files)]_vars

\* C3 as stated: after a failed Certify RPC the wait before the next attempt
\* is MIN_REFRESH_TIME, whether or not a certificate is held.
C3_AlwaysMinAfterRpcFailure ==
    (pc = "select" /\ lastOutcome = "rpcfail") => refreshIn = MIN_REFRESH_TIME

\* C3 as amended: after a failed Certify RPC the certificate held is the one
\* held before the call, and the wait before the next attempt is
\* MIN_REFRESH_TIME when no certificate is held and beforeExpiry of the held
\* certificate's NotAfter when one is held.
C3_RpcFailureSchedule ==
    [][(pc = "certify" /\ pc' = "select" /\ lastOutcome' = "rpcfail")
         => /\ crt' = crt
            /\ crt = Nil => refreshIn' = MIN_REFRESH_TIME
            /\ crt # Nil => refreshIn' = beforeExpiry(crt.na)]_vars

\* a Certify RPC failed while a certificate was held, and the wait scheduled
\* is longer than the minimum
C3_Witness ==
    /\ pc = "select"
    /\ lastOutcome = "rpcfail"
    /\ crt # Nil
    /\ refreshIn > MIN_REFRESH_TIME

\* C4: for the expiry of every certificate the agent comes to hold, the
\* interval beforeExpiry returns lies in [MIN_REFRESH_TIME, MAX_REFRESH_TIME].
C4_RefreshInRange ==
    crt # Nil =>
        /\ MIN_REFRESH_TIME <= beforeExpiry(crt.na)
        /\ beforeExpiry(crt.na) <= MAX_REFRESH_TIME

\* C5: when the first (and any) Certify call is made, the key file exists
\* under -dir, holds the private key and has mode 0400.
C5_KeyStoredBeforeCertify ==
    pc = "certify" =>
        /\ files["key"].exists
        /\ files["key"].kind = "key"
        /\ files["key"].mode = Perm0400

\* C6: if key generation, the key-file write, CSR creation or the CSR-file
\* write failed, the agent has aborted: it built no CSR from a missing key
\* and makes no Certify call.
C6_GenerationFailureAborts ==
    genFailed # "none" => (pc = "exited" /\ ~csrFromNilKey)

\* C7: for an existing directory that os.Stat can inspect, checkEndEntityDir
\* accepts it exactly when its permission bits are 0700 and none of key, csr
\* and crt.pem is in it.
C7_PermExactly0700 ==
    LET checked == pc \notin {"loadVerifier", "checkDir"}
                   /\ fatal \notin {"Failed to load trust anchors", "signal", "stat error"}
        accepted == fatal \notin {"No end entity directory specified", "Not a directory",
                                  "Must have permissions 0700", "Already exists"}
    IN  (checked /\ flags.dir # "" /\ dirKind = "dir")
            => (accepted <=> (dirPerm = Perm0700 /\ preExisting = {}))

\* C8: if key, csr or crt.pem is under -dir when the agent starts, startup
\* ends before a key or a CSR is generated or written and before any Certify
\* call: main never gets past checkEndEntityDir and the files are untouched.
C8_PreExistingFilesAbort ==
    preExisting # {} =>
        /\ pc \in {"loadVerifier", "checkDir", "exited"}
        /\ key = "nil"
        /\ csrb = "nil"
        /\ genFailed = "none"
        /\ files = InitialFiles(preExisting)

\* startup ended in checkNotExists finding one of the files
C8_Witness ==
    /\ preExisting # {}
    /\ pc = "exited"
    /\ fatal = "Already exists"

\* C9: after a signal was delivered while a Certify call was in flight, and
\* that call has returned, no further loop iteration (Certify call) starts.
C9_NoIterationAfterInFlightSignal ==
    [][(sigInFlight /\ pc # "certify") => pc' # "certify"]_vars

\* C10: after SIGINT or SIGTERM is delivered, the agent eventually terminates.
C10_EventuallyTerminates ==
    SigDelivered ~> (pc = "exited")

\* C11: a Certify call that fails leaves the certificate main holds and the
\* files of the end-entity directory, crt.pem among them, exactly as they
\* were before the call.
C11_RpcFailureFrame ==
    [][(pc = "certify" /\ lastOutcome' = "rpcfail")
        => (crt' = crt /\ files' = files)]_vars

C11_Witness ==
    /\ pc = "select"
    /\ lastOutcome = "rpcfail"
    /\ crt # Nil
    /\ files["crt.pem"] # NoFile

\* C12: crt.pem changes only in the step where a response is validated, and
\* then the leaf passed chain verification and its validity window contains
\* now (NotBefore <= now <= NotAfter); a response that fails a check leaves
\* every file as it was.
C12_OnlyValidatedLeafStored ==
    [][/\ (files'["crt.pem"] # files["crt.pem"]
            => /\ pc = "certify"
               /\ lastOutcome' \in {"stored", "writefail"}
               /\ crt' # Nil
               /\ crt'.chain
               /\ crt'.nb <= 0
               /\ crt'.na >= 0
               /\ lastOutcome' = "stored" => files'["crt.pem"].ser = crt'.ser)
       /\ ((pc = "certify" /\ lastOutcome' = "invalid") => files' = files)]_vars

C12_Witness ==
    /\ pc = "select"
    /\ lastOutcome = "stored"
    /\ files["crt.pem"] # NoFile
    /\ files["crt.pem"].ser = crt.ser
    /\ crt.chain

\* C13: when the attempt leaves main with no certificate, or with one whose
\* NotAfter is in the past, the wait scheduled is MIN_REFRESH_TIME exactly.
C13_MinWaitWithoutValidCert ==
    [][(pc = "certify" /\ pc' = "select" /\ (crt' = Nil \/ crt'.na < 0))
        => (refreshIn' = MIN_REFRESH_TIME /\ timer' = MIN_REFRESH_TIME)]_vars

C13_Witness ==
    /\ pc = "select"
    /\ crt # Nil
    /\ crt.na < 0
    /\ timer = MIN_REFRESH_TIME
    /\ refreshIn = MIN_REFRESH_TIME

\* C14: for a held certificate with at least MIN_REFRESH_TIME of validity
\* left, the interval computed is no greater than what is left; with 100s
\* left it is also at least MIN_REFRESH_TIME.
C14_IntervalWithinValidity ==
    (pc = "select" /\ crt # Nil /\ crt.na >= MIN_REFRESH_TIME) =>
        /\ refreshIn <= crt.na
        /\ timer = refreshIn
        /\ crt.na = 100000 => refreshIn >= MIN_REFRESH_TIME

C14_Witness ==
    /\ pc = "select"
    /\ crt # Nil
    /\ crt.na = 100000
    /\ refreshIn = 80000

\* C15: every Certify attempt is made after a read of the token file; when
\* the read succeeded the request carries the bytes just read, and when it
\* failed the request carries the token of the latest read that succeeded
\* and the attempt is made all the same.
C15_TokenReloaded ==
    pc = "certify" =>
        /\ reqToken = goodToken
        /\ reqToken # 0
        /\ tokenFile # 0 => reqToken = tokenFile

C15_Witness ==
    /\ pc = "certify"
    /\ crt # Nil
    /\ tokenFile = 0
    /\ reqToken = MaxToken

\* C17: the server listens (net.Listen, and the admin server before it) only
\* when the trust domain is valid, the trust anchors and the issuer
\* credentials were loaded and the issuer certificate chains to the anchors
\* under the name identity.<controllerNamespace>.<trustDomain>; a server that
\* exited on a failure of one of these never listened.
C17_ListenOnlyAfterChecks ==
    LET passed == /\ srv.td # "invalid"
                  /\ srv.anchors = "ok"
                  /\ srv.creds = "ok"
                  /\ srv.issuerChain
                  /\ srv.issuerName = <<"identity", srv.ns, srv.td>>
    IN
    /\ (srv.admin \/ srv.listening \/ srv.serving \/ srv.everListened) => passed
    /\ srv.pc \in {"newCA", "k8s", "listen", "await"} => passed
    /\ (srv.pc = "exited" /\ ~passed) => (srv.fatal # "" /\ ~srv.everListened)

C17_Witness ==
    /\ srv.pc = "await"
    /\ srv.listening
    /\ srv.serving
    /\ srv.ns = "other"
    /\ srv.issuerName = <<"identity", "other", "cluster.local">>

\* C18: a CA is constructed only with lifetime > 0 and
\* clockSkewAllowance >= 0.
C18_ValidityPolicyChecked ==
    srv.ca.built => (srv.ca.lifetime > 0 /\ srv.ca.skew >= 0)

\* C19 as stated: a certificate issued by the CA is accepted by the agent at
\* every reading of its clock that is not after NotAfter.
C19_AcceptedUntilNotAfter ==
    (srv.issued # Nil /\ srv.issued.na >= 0) =>
        (lastOutcome = "stored" /\ crt = srv.issued)

\* C19 amended: it is accepted, held and stored at every reading of the
\* agent's clock from NotBefore to NotAfter, and at no other.
C19_AcceptedWithinWindow ==
    srv.issued # Nil =>
        /\ (srv.issued.nb <= 0 /\ srv.issued.na >= 0)
              => /\ lastOutcome = "stored"
                 /\ crt = srv.issued
                 /\ files["crt.pem"] = File("crt", srv.issued.ser, Perm0600)
        /\ (srv.issued.nb > 0 \/ srv.issued.na < 0)
              => /\ lastOutcome = "invalid"
                 /\ crt = Nil
                 /\ files["crt.pem"] = NoFile

\* the agent's clock behind the issuer's, within the allowance
C19_Witness ==
    /\ lastOutcome = "stored"
    /\ crt = srv.issued
    /\ srv.ca.skew > 0
    /\ srv.issued.nb > 0 - srv.ca.skew
    /\ srv.issued.nb <= 0

\* C20: started with a complete command line, a readable token and a fresh
\* end-entity directory, with a service that answers with valid
\* certificates, the agent eventually writes crt.pem, and the certificate
\* written has NotAfter later than the time of writing.
C20_EventuallyStored ==
    (pc = "loadVerifier") ~>
        (/\ lastOutcome = "stored"
         /\ files["crt.pem"] = File("crt", crt.ser, Perm0600)
         /\ crt.na > 0)

\* C16: a failed call or a failed validation is followed by another Certify
\* attempt, unless a shutdown signal arrives first.
C16_FailureRetried ==
    (lastOutcome \in {"rpcfail", "invalid"}) ~> (pc = "certify" \/ stop = 1)

C16_Witness ==
    /\ pc = "select"
    /\ lastOutcome \in {"rpcfail", "invalid"}
    /\ crt = Nil
    /\ stop = 0
    /\ timer = MIN_REFRESH_TIME

\* C21: with -trust-anchors, -dir, -name or -token empty the agent never
\* gets past startup: it makes no Certify call and ends in a fatal error.
C21_EmptySettingAborts ==
    (flags.trustAnchors = "" \/ flags.dir = "" \/ flags.name = "" \/ flags.token = "")
        => /\ pc \in {"loadVerifier", "checkDir", "genKey", "genCSR", "readToken", "exited"}
           /\ lastOutcome = "none"
           /\ crt = Nil
           /\ pc = "readToken" => flags.token = ""

C21_Witness ==
    /\ pc = "exited"
    /\ fatal = "-token must be specified"
    /\ flags.trustAnchors = "ok"
    /\ flags.dir = "set"
    /\ flags.name = "id"

\* C22: a server that is serving and has received SIGINT or SIGTERM stops
\* the gRPC server and exits; and a server stops serving only in the step
\* that takes a signal from stop and ends the process.
C22_SignalStopsServer ==
    /\ (srv.serving /\ srv.stop = 1)
          ~> (srv.pc = "exited" /\ ~srv.listening /\ ~srv.serving)
    /\ [][(srv.serving /\ ~srv'.serving) => (srv.stop = 1 /\ srv'.pc = "exited")]_vars

C22_Witness ==
    /\ srv.pc = "exited"
    /\ srv.fatal = ""
    /\ srv.everListened
    /\ ~srv.listening
    /\ ~srv.serving

\* C23: a new agent process started on the same -dir after the first one
\* has exited is not turned away because of what the first one left there.
C23_RestartSucceeds ==
    (peer.after = "exited" /\ peer.pc = "exited") => peer.fatal # "Already exists"

\* C28: of two agent processes started on the same -dir, at most one gets
\* past startup into the loop.
C28_AtMostOneInLoop ==
    ~(pc = "loop" /\ peer.pc = "loop")

\* C25: ShouldInjectWebhook returns true exactly when the report is
\* injectable and either the namespace carries linkerd.io/inject: enabled
\* while the pod does not carry linkerd.io/inject: disabled, or the pod
\* carries linkerd.io/inject: enabled.
C25_ShouldInjectWebhook ==
    inj.pc = "done" =>
        LET has(m, v) == "linkerd.io/inject" \in DOMAIN m /\ m["linkerd.io/inject"] = v IN
        inj.result <=>
            /\ inj.injectable
            /\ \/ has(inj.ns, "enabled") /\ ~has(inj.pod, "disabled")
               \/ has(inj.pod, "enabled")

C25_Witness ==
    /\ inj.pc = "done"
    /\ inj.result
    /\ inj.pod = NoAnnotations
    /\ inj.ns # NoAnnotations

\* C30: with LINKERD2_PROXY_IDENTITY_DISABLED unset, the sidecar's start
\* script eventually starts linkerd2-proxy.
C30_ProxyEventuallyStarts ==
    (sh.pc = "test" /\ ~sh.disabled) ~> (sh.pc = "proxy")

\* C24: the key file changes only in generateAndStoreKey and the CSR file
\* only in generateAndStoreCSR, each of which main runs once, before the
\* loop; no step of the loop changes either.
C24_KeyAndCsrWrittenOnce ==
    [][/\ (files'["key"] # files["key"] => (pc = "genKey" /\ pc' \in {"genCSR", "exited"}))
       /\ (files'["csr"] # files["csr"] => (pc = "genCSR" /\ pc' \in {"readToken", "exited"}))
       /\ (pc \in {"loop", "certify", "select"}
             => (files'["key"] = files["key"] /\ files'["csr"] = files["csr"]))]_vars

C24_Witness ==
    /\ pc = "select"
    /\ lastOutcome = "stored"
    /\ files["csr"] = File("csr", 0, Perm0400)
    /\ files["crt.pem"] # NoFile

\* C26: whenever main holds a certificate, crt.pem contains that
\* certificate.
C26_FileMatchesHeld ==
    crt # Nil => files["crt.pem"] = File("crt", crt.ser, Perm0600)

\* C27: a certificate that was accepted and stored names the identity given
\* with -name.
C27_StoredNamesIdentity ==
    (pc = "select" /\ lastOutcome = "stored") => crt.id = flags.name

\* C29, for the aborts the claim names: when main has ended in the fatal
\* error of a missing or unreadable token, the end-entity directory holds
\* what it held when the process started.
C29_AbortCreatesNoFile ==
    (pc = "exited" /\ fatal \in {"-token must be specified", "Failed to read token"})
        => files = InitialFiles(preExisting)

\* C31: the patch that GetPatch returns holds a sidecar, an init container,
\* a volume, an annotation or a label only when the parsed workload has a
\* pod spec and shouldInject returned true; when it has no pod spec the
\* report has UnsupportedResource set and the patch holds none of them.
C31_InjectsOnlyPodSpecs ==
    (conf.pc = "returned" /\ conf.err = "nil") =>
        LET p == conf.patch
            injected ==
                \/ p.containers # {}
                \/ p.initContainers # {}
                \/ p.volumes # {}
                \/ p.annotations # {}
                \/ p.labels # {}
                \/ p.env # {}
                \/ p.roots # {}
        IN
        /\ injected => (conf.podSpec # "nil" /\ conf.decision)
        /\ conf.podSpec = "nil" => (conf.UnsupportedResource /\ ~injected)

C31_Witness ==
    /\ conf.pc = "returned"
    /\ conf.podSpec = "set"
    /\ conf.decision
    /\ ~conf.UnsupportedResource
    /\ "linkerd-proxy" \in conf.patch.containers
    /\ "linkerd-init" \in conf.patch.initContainers

\* C32: for a kind that is none of the supported workload kinds, parse
\* returns no error and leaves obj, podSpec, objMeta, podLabels and the two
\* DNS-name overrides of the ResourceConfig as they were.
C32_ParseFrame ==
    [][(/\ conf.pc = "new"
        /\ conf'.pc # "new"
        /\ ToLower(conf.kind) \notin
              {"daemonset", "deployment", "job", "pod", "replicaset",
               "replicationcontroller", "statefulset"})
       => /\ conf'.pc = "parsed"
          /\ conf'.err = "nil"
          /\ conf'.obj = conf.obj
          /\ conf'.podSpec = conf.podSpec
          /\ conf'.objMeta = conf.objMeta
          /\ conf'.podLabels = conf.podLabels
          /\ conf'.controllerDNSNameOverride = conf.controllerDNSNameOverride
          /\ conf'.identityDNSNameOverride = conf.identityDNSNameOverride]_vars

C32_Witness ==
    /\ conf.pc = "parsed"
    /\ conf.kind = "Service"
    /\ conf.bytes.ok
    /\ conf.obj = "nil"
    /\ conf.podSpec = "nil"

\* C33: KindInjectable returns true exactly for the kinds for which
\* getFreshWorkloadObj returns an object, and parse sets the pod spec for
\* every such object.
C33_KindsInSync ==
    (conf.kindInjectable # "?" /\ conf.pc \in {"parsed", "returned"} /\ conf.err = "nil") =>
        /\ conf.kindInjectable = "true" <=> conf.obj # "nil"
        /\ conf.obj # "nil" => conf.podSpec = "set"

C33_Witness ==
    /\ conf.pc = "parsed"
    /\ conf.kind = "Job"
    /\ conf.kindInjectable = "true"
    /\ conf.obj = "batchv1.Job"
    /\ conf.podSpec = "set"

\* C34: in an injected workload the linkerd.io/identity-mode annotation is
\* "default" exactly when the sidecar has the identity environment and the
\* end-entity volume mount, and "disabled" exactly when the sidecar has
\* LINKERD2_PROXY_IDENTITY_DISABLED and no end-entity volume is added.
C34_IdentityModeAgrees ==
    (conf.pc = "returned" /\ conf.patch.containers # {}) =>
        LET p == conf.patch
            mode(v) == <<"linkerd.io/identity-mode", v>> \in p.annotations
        IN
        /\ mode("default") <=>
              /\ IdentityEnv \subseteq p.env
              /\ "linkerd-identity-end-entity" \in p.volumeMounts
        /\ mode("disabled") <=>
              /\ "LINKERD2_PROXY_IDENTITY_DISABLED" \in p.env
              /\ "linkerd-identity-end-entity" \notin p.volumes

C34_Witness ==
    /\ conf.pc = "returned"
    /\ conf.idctx
    /\ "linkerd-proxy" \in conf.patch.containers
    /\ <<"linkerd.io/identity-mode", "default">> \in conf.patch.annotations
    /\ "linkerd-identity-end-entity" \in conf.patch.volumes

====
